---- MODULE Spec2Model ----
(***************************************************************************)
(* Model of scripts/magnetism/coplanar_magnetic_atoms.py: one command-line *)
(* run of main(), from sys.argv to the MAGMOM file.                        *)
(*                                                                         *)
(* Lengths (lattice, projections, tolerance) and the moment magnitude are  *)
(* floats in the program.  The model keeps them integral: every input is   *)
(* chosen so that each product, quotient and square root the program takes *)
(* is an exact integer, and the one non-finite value the program can       *)
(* produce (0/0 = nan in numpy) is kept as an explicit NaN.                *)
(* Atom indices, plane ids and plane ranks are 0-based, as in the source.  *)
(*                                                                         *)
(* The run is one with all six command-line arguments given, so that no    *)
(* value is prompted for, on an existing POSCAR file in Direct coordinates *)
(* without a selective-dynamics line.  pc = "exit" is sys.exit(1) after a  *)
(* reported error, pc = "crash" an exception nothing catches, pc = "done"  *)
(* the state after the MAGMOM file is written.                             *)
(***************************************************************************)
EXTENDS Integers, Sequences, FiniteSets, TLC

\* Number of atoms in the POSCAR file.
NAtoms == 3
\* Largest fractional z coordinate of an atom in the POSCAR file.
MaxFrac == 3

VARIABLES
    pc,             \* position in main()
    argv,           \* sys.argv[2:]: [vec, atoms, tol, L, M]
    file,           \* contents of the POSCAR file named by sys.argv[1]
    n_vec, atoms, tol, L, M,        \* parsed arguments (None until parsed)
    lattice, frac, elems,           \* result of read_poscar
    mask,           \* selection mask, atom index -> BOOLEAN
    proj,           \* projection of every atom on n_hat
    planes,         \* plane_id -> [ref, members]; a dict in insertion order
    i,              \* loop variable of the clustering loop
    ordered,        \* planes sorted by reference projection
    plane_id,       \* loop variable of the sign loop: the rank being signed
    magmom_values,  \* atom index -> moment
    table_lines,    \* rows of coplanar_atoms.txt
    MAGMOM          \* contents of the MAGMOM file (None until written)

vars == <<pc, argv, file, n_vec, atoms, tol, L, M, lattice, frac, elems, mask,
          proj, planes, i, ordered, plane_id, magmom_values, table_lines, MAGMOM>>

None == <<>>

----------------------------------------------------------------------------
(* Floating point values: a number or numpy's nan.                         *)

NaN == [nan |-> TRUE, v |-> 0]
Num(x) == [nan |-> FALSE, v |-> x]

FAdd(a, b) == IF a.nan \/ b.nan THEN NaN ELSE Num(a.v + b.v)
FSub(a, b) == IF a.nan \/ b.nan THEN NaN ELSE Num(a.v - b.v)
FMul(a, b) == IF a.nan \/ b.nan THEN NaN ELSE Num(a.v * b.v)
FAbs(a) == IF a.nan THEN NaN ELSE Num(IF a.v < 0 THEN -a.v ELSE a.v)
\* a / b.  numpy gives nan for 0/0 (with a RuntimeWarning, not an exception).
\* The divisor is a norm, which is 0 only when every dividend is 0 too.
FDiv(a, b) == IF a.nan \/ b.nan \/ b.v = 0 THEN NaN ELSE Num(a.v \div b.v)
\* a < b: every comparison with nan is False.
FLess(a, b) == ~a.nan /\ ~b.nan /\ a.v < b.v

----------------------------------------------------------------------------
(* Linear algebra used by main().                                          *)

Dot(a, b) == a[1] * b[1] + a[2] * b[2] + a[3] * b[3]
\* row vector @ 3x3 matrix
VecMat(v, m) == [j \in 1..3 |-> v[1] * m[1][j] + v[2] * m[2][j] + v[3] * m[3][j]]
Abs(x) == IF x < 0 THEN -x ELSE x
\* square root of a perfect square
Sqrt(n) == CHOOSE k \in 0..n : k * k = n
\* np.linalg.norm
Norm(v) == Sqrt(Dot(v, v))

----------------------------------------------------------------------------
(* read_poscar                                                             *)

RECURSIVE Repeat(_, _)
\* np.repeat(symbols, counts)
Repeat(symbols, counts) ==
    IF symbols = <<>> THEN <<>>
    ELSE [k \in 1..counts[1] |-> symbols[1]] \o Repeat(Tail(symbols), Tail(counts))

\* A file in Direct (fractional) coordinates without selective dynamics.
ReadPoscar(f) ==
    LET natoms == Len(Repeat(f.symbols, f.counts))
    IN  [lattice |-> [r \in 1..3 |-> [c \in 1..3 |-> f.rows[r][c] * f.scale]],
         coords |-> [a \in 0..natoms - 1 |-> f.coords[a + 1]],
         elements |-> [a \in 0..natoms - 1 |-> Repeat(f.symbols, f.counts)[a + 1]]]

----------------------------------------------------------------------------
(* parse_vector, parse_atom_selection                                      *)

\* The components between the brackets; ValueError unless there are three.
ParseVector(vector_str) ==
    IF Len(vector_str) # 3 THEN [ok |-> FALSE, value |-> None]
    ELSE [ok |-> TRUE, value |-> vector_str]

\* numpy's a[k] for an array of length n: a negative k counts from the end,
\* anything outside -n..n-1 raises IndexError.
InBounds(k, n) == -n <= k /\ k <= n - 1
Wrap(k, n) == IF k < 0 THEN k + n ELSE k

ParseAtomSelection(atom_str, el) ==
    LET natoms == Cardinality(DOMAIN el)
    IN  IF atom_str.kind = "all"
        THEN [ok |-> TRUE, mask |-> [a \in DOMAIN el |-> TRUE]]
        ELSE IF atom_str.kind = "digits"
        THEN LET idx == [k \in DOMAIN atom_str.idx |-> atom_str.idx[k] - 1]
             IN  IF \E k \in DOMAIN idx : ~InBounds(idx[k], natoms)
                 THEN [ok |-> FALSE, mask |-> None]
                 ELSE [ok |-> TRUE,
                       mask |-> [a \in DOMAIN el |->
                                   \E k \in DOMAIN idx : Wrap(idx[k], natoms) = a]]
        ELSE [ok |-> TRUE,
              mask |-> [a \in DOMAIN el |->
                          \E k \in DOMAIN atom_str.syms : atom_str.syms[k] = el[a]]]

----------------------------------------------------------------------------
(* Projection                                                              *)

\* n_vec @ lattice if np.all(np.abs(n_vec) <= 1) else n_vec
NCart(v, lat) ==
    IF \A k \in 1..3 : Abs(v[k]) <= 1 THEN VecMat(v, lat) ELSE v

\* n_cart / np.linalg.norm(n_cart)
NHat(v, lat) ==
    LET n_cart == NCart(v, lat)
    IN  [k \in 1..3 |-> FDiv(Num(n_cart[k]), Num(Norm(n_cart)))]

\* (frac @ lattice) @ n_hat
Projections(fr, lat, v) ==
    LET n_hat == NHat(v, lat)
    IN  [a \in DOMAIN fr |->
           LET cart == VecMat(fr[a], lat)
           IN  FAdd(FAdd(FMul(Num(cart[1]), n_hat[1]), FMul(Num(cart[2]), n_hat[2])),
                    FMul(Num(cart[3]), n_hat[3]))]

----------------------------------------------------------------------------
(* Clustering                                                              *)

\* Mutant of Matches: the tolerance taken as a closed threshold.
MatchesInclusive(p, ref, t) ==
    ~FLess(Num(t), FAbs(FSub(p, ref))) /\ ~p.nan /\ ~ref.nan

\* abs(p-ref)<tol
Matches(p, ref, t) == FLess(FAbs(FSub(p, ref)), Num(t))

\* Mutant of FindPlane: best fit, the matching plane of nearest reference.
FindNearestPlane(pl, p, t) ==
    LET hits == {k \in DOMAIN pl : Matches(p, pl[k].ref, t)}
        d(k) == FAbs(FSub(p, pl[k].ref)).v
    IN  IF hits = {} THEN -1
        ELSE CHOOSE k \in hits :
                \A j \in hits : d(k) < d(j) \/ (d(k) = d(j) /\ k <= j)

\* next((k for k,(ref,_) in planes.items() if abs(p-ref)<tol), None)
FindPlane(pl, p, t) ==
    LET hits == {k \in DOMAIN pl : Matches(p, pl[k].ref, t)}
    IN  IF hits = {} THEN -1
        ELSE CHOOSE k \in hits : \A j \in hits : k <= j

\* Mutant of Selected: the mask is not consulted.
SelectedAlways(m, a) == TRUE

\* Whether the loop body runs for atom a.
Selected(m, a) == m[a]

\* One iteration of the clustering loop for atom a with projection p.
AddAtom(pl, a, p, t) ==
    LET found == FindPlane(pl, p, t)
        pid == IF found = -1 THEN Cardinality(DOMAIN pl) ELSE found
        made == IF found = -1 THEN pl @@ (pid :> [ref |-> p, members |-> <<>>])
                ELSE pl
    IN  [made EXCEPT ![pid].members = Append(@, a)]

----------------------------------------------------------------------------
(* Ordering and signs                                                      *)

\* planes.items(), in insertion order
Items(pl) ==
    [k \in 1..Cardinality(DOMAIN pl) |->
        [pid |-> k - 1, ref |-> pl[k - 1].ref, members |-> pl[k - 1].members]]

RECURSIVE InsertBeforeEqual(_, _)
\* Mutant of Insert: x also passes the elements it is equal to.
InsertBeforeEqual(s, x) ==
    IF s = <<>> THEN <<x>>
    ELSE IF ~FLess(s[Len(s)].ref, x.ref)
         THEN Append(InsertBeforeEqual(SubSeq(s, 1, Len(s) - 1), x), s[Len(s)])
         ELSE Append(s, x)

RECURSIVE Insert(_, _)
\* x placed in the sorted list s after every element it is not less than
Insert(s, x) ==
    IF s = <<>> THEN <<x>>
    ELSE IF FLess(x.ref, s[Len(s)].ref)
         THEN Append(Insert(SubSeq(s, 1, Len(s) - 1), x), s[Len(s)])
         ELSE Append(s, x)

RECURSIVE SortedByRef(_)
\* sorted(items, key=lambda kv: kv[1][0]): stable
SortedByRef(s) ==
    IF s = <<>> THEN <<>>
    ELSE Insert(SortedByRef(SubSeq(s, 1, Len(s) - 1)), s[Len(s)])

\* Python's a // b for b # 0: rounds towards minus infinity
FloorDiv(a, b) == IF b > 0 THEN a \div b ELSE (-a) \div (-b)

\* Mutant of Sign: the sign alternates with every plane, whatever L.
SignEveryPlane(r, l) == IF r % 2 = 0 THEN 1 ELSE -1

\* +1 if (plane_id//L)%2 == 0 else -1
Sign(r, l) == IF FloorDiv(r, l) % 2 = 0 THEN 1 ELSE -1

RECURSIVE SetMoments(_, _, _)
\* for idx in idx_list: magmom_values[idx] = sign * M
SetMoments(mm, idx_list, value) ==
    IF idx_list = <<>> THEN mm
    ELSE SetMoments([mm EXCEPT ![idx_list[1]] = value], Tail(idx_list), value)

\* the rows appended to table_lines for one plane
Rows(idx_list, rank, sign, el) ==
    [k \in 1..Len(idx_list) |->
        [atom_index |-> idx_list[k] + 1, element |-> el[idx_list[k]],
         plane_ID |-> rank, sign |-> sign]]

----------------------------------------------------------------------------
(* Inputs                                                                  *)

Fracs == {<<0, 0, z>> : z \in 0..MaxFrac}

Poscars ==
    {[scale |-> 2,
      rows |-> <<<<1, 0, 0>>, <<0, 1, 0>>, <<0, 0, 1>>>>,
      symbols |-> <<"Fe", "O">>,
      counts |-> <<NAtoms - 1, 1>>,
      coords |-> c] : c \in [1..NAtoms -> Fracs]}

\* [0,0,1] is lattice-fractional, [0,0,-2] Cartesian, [0,0,0] has no
\* direction and [0,1] is not a vector of three components.
Vectors == {<<0, 0, 1>>, <<0, 0, -2>>, <<0, 0, 0>>, <<0, 1>>}

AtomSelections ==
    {[kind |-> "all", idx |-> <<>>, syms |-> <<>>],
     [kind |-> "symbols", idx |-> <<>>, syms |-> <<"Fe">>],
     [kind |-> "symbols", idx |-> <<>>, syms |-> <<"Xx">>],
     [kind |-> "digits", idx |-> <<0>>, syms |-> <<>>],
     [kind |-> "digits", idx |-> <<1, NAtoms>>, syms |-> <<>>],
     [kind |-> "digits", idx |-> <<NAtoms + 1>>, syms |-> <<>>]}

Tolerances == {-1, 0, 2, 6}
Layers == {-1, 0, 1, 2}
Magnitudes == {-1, 2}

Init ==
    /\ pc = "args"
    /\ argv \in [vec : Vectors, atoms : AtomSelections, tol : Tolerances,
                 L : Layers, M : Magnitudes]
    /\ file \in Poscars
    /\ n_vec = None /\ atoms = None /\ tol = None /\ L = None /\ M = None
    /\ lattice = None /\ frac = None /\ elems = None
    /\ mask = None /\ proj = None /\ planes = None /\ i = None
    /\ ordered = None /\ plane_id = None
    /\ magmom_values = None /\ table_lines = None /\ MAGMOM = None

----------------------------------------------------------------------------
(* main()                                                                  *)

\* Command-line parsing; a vector that does not parse ends the run.
ParseArgs ==
    /\ pc = "args"
    /\ LET v == ParseVector(argv.vec)
       IN  IF v.ok
           THEN /\ n_vec' = v.value
                /\ atoms' = argv.atoms
                /\ tol' = argv.tol
                /\ L' = argv.L
                /\ M' = argv.M
                /\ pc' = "read"
           ELSE /\ pc' = "exit"
                /\ UNCHANGED <<n_vec, atoms, tol, L, M>>
    /\ UNCHANGED <<argv, file, lattice, frac, elems, mask, proj, planes, i,
                   ordered, plane_id, magmom_values, table_lines, MAGMOM>>

ReadFile ==
    /\ pc = "read"
    /\ LET r == ReadPoscar(file)
       IN  /\ lattice' = r.lattice
           /\ frac' = r.coords
           /\ elems' = r.elements
    /\ pc' = "select"
    /\ UNCHANGED <<argv, file, n_vec, atoms, tol, L, M, mask, proj, planes, i,
                   ordered, plane_id, magmom_values, table_lines, MAGMOM>>

\* An exception of parse_atom_selection is reported and ends the run.
ChooseAtoms ==
    /\ pc = "select"
    /\ LET r == ParseAtomSelection(atoms, elems)
       IN  IF r.ok
           THEN mask' = r.mask /\ pc' = "project"
           ELSE mask' = mask /\ pc' = "exit"
    /\ UNCHANGED <<argv, file, n_vec, atoms, tol, L, M, lattice, frac, elems,
                   proj, planes, i, ordered, plane_id, magmom_values,
                   table_lines, MAGMOM>>

Project ==
    /\ pc = "project"
    /\ proj' = Projections(frac, lattice, n_vec)
    /\ planes' = <<>>
    /\ i' = 0
    /\ pc' = "cluster"
    /\ UNCHANGED <<argv, file, n_vec, atoms, tol, L, M, lattice, frac, elems,
                   mask, ordered, plane_id, magmom_values, table_lines, MAGMOM>>

\* One iteration of "for i, p in enumerate(proj)".
ClusterStep ==
    /\ pc = "cluster"
    /\ i < Cardinality(DOMAIN proj)
    /\ planes' = IF Selected(mask, i) THEN AddAtom(planes, i, proj[i], tol)
                 ELSE planes
    /\ i' = i + 1
    /\ UNCHANGED <<pc, argv, file, n_vec, atoms, tol, L, M, lattice, frac,
                   elems, mask, proj, ordered, plane_id, magmom_values,
                   table_lines, MAGMOM>>

SortPlanes ==
    /\ pc = "cluster"
    /\ i = Cardinality(DOMAIN proj)
    /\ ordered' = SortedByRef(Items(planes))
    /\ magmom_values' = [a \in DOMAIN elems |-> 0]
    /\ table_lines' = <<>>
    /\ plane_id' = 0
    /\ pc' = "sign"
    /\ UNCHANGED <<argv, file, n_vec, atoms, tol, L, M, lattice, frac, elems,
                   mask, proj, planes, i, MAGMOM>>

\* One iteration of the loop over the ordered planes; L = 0 raises
\* ZeroDivisionError, which nothing catches.
SignStep ==
    /\ pc = "sign"
    /\ plane_id < Len(ordered)
    /\ IF L = 0
       THEN /\ pc' = "crash"
            /\ UNCHANGED <<plane_id, magmom_values, table_lines>>
       ELSE LET sign == Sign(plane_id, L)
                idx_list == ordered[plane_id + 1].members
            IN  /\ magmom_values' = SetMoments(magmom_values, idx_list, sign * M)
                /\ table_lines' = table_lines \o Rows(idx_list, plane_id, sign, elems)
                /\ plane_id' = plane_id + 1
                /\ pc' = pc
    /\ UNCHANGED <<argv, file, n_vec, atoms, tol, L, M, lattice, frac, elems,
                   mask, proj, planes, i, ordered, MAGMOM>>

WriteMagmom ==
    /\ pc = "sign"
    /\ plane_id = Len(ordered)
    /\ MAGMOM' = magmom_values
    /\ pc' = "done"
    /\ UNCHANGED <<argv, file, n_vec, atoms, tol, L, M, lattice, frac, elems,
                   mask, proj, planes, i, ordered, plane_id, magmom_values,
                   table_lines>>

Next ==
    \/ ParseArgs
    \/ ReadFile
    \/ ChooseAtoms
    \/ Project
    \/ ClusterStep
    \/ SortPlanes
    \/ SignStep
    \/ WriteMagmom

Spec == Init /\ [][Next]_vars

----------------------------------------------------------------------------
(* Vocabulary of the properties                                            *)

\* argv has been parsed into n_vec, atoms, tol, L, M
Parsed == pc # "args" /\ n_vec # None
\* the clustering loop has started
Clustering == pc \in {"cluster", "sign", "done", "crash"}
\* the clustering loop has finished
Clustered == (pc = "cluster" /\ i = Cardinality(DOMAIN proj)) \/ pc \in {"sign", "done", "crash"}
\* the planes have been sorted
Sorted == pc \in {"sign", "done", "crash"}

\* every (plane, position) of the member lists
Entries == UNION {{<<k, j>> : j \in DOMAIN planes[k].members} : k \in DOMAIN planes}
Occurrences(a) == Cardinality({e \in Entries : planes[e[1]].members[e[2]] = a})
Member(a, k) == \E j \in DOMAIN planes[k].members : planes[k].members[j] = a
\* atom a has been through the loop body
Placed(a) == mask[a] /\ a < i
PlaneOf(a) == CHOOSE k \in DOMAIN planes : Member(a, k)
Founder(k) == planes[k].members[1]
\* the rank whose plane holds atom a
RankOf(a) == CHOOSE r \in 0..Len(ordered) - 1 :
                \E j \in DOMAIN ordered[r + 1].members : ordered[r + 1].members[j] = a
\* |x - y| for two finite values
Dist(x, y) == Abs(x.v - y.v)
Finite(x) == ~x.nan

----------------------------------------------------------------------------
\* C1: after the clustering pass every selected atom appears once in exactly
\* one plane's member list, no unselected atom appears in any, and the member
\* lists hold sum(mask) entries in all.
C1_SelectedAtomsOncePerPlane ==
    Clustered =>
        /\ \A a \in DOMAIN mask : Occurrences(a) = IF mask[a] THEN 1 ELSE 0
        /\ Cardinality(Entries) = Cardinality({a \in DOMAIN mask : mask[a]})

C1_Witness ==
    /\ pc = "done"
    /\ \E a \in DOMAIN mask : ~mask[a]
    /\ \E k \in DOMAIN planes : Len(planes[k].members) = 2

\* C2: for L >= 1 the final moment of a selected atom is sign(r) * M with r
\* the rank of its plane and sign(r) = +1 iff (r // L) is even; rank 0 is
\* positive, L = 1 alternates with every plane, L >= P gives one sign; the
\* final moment of an unselected atom is 0.
C2_MomentIsBlockSignTimesM ==
    (pc = "done" /\ L >= 1) =>
        \A a \in DOMAIN mask :
            IF mask[a]
            THEN LET r == RankOf(a)
                 IN  /\ MAGMOM[a] = IF (r \div L) % 2 = 0 THEN M ELSE -M
                     /\ r = 0 => MAGMOM[a] = M
                     /\ L = 1 => MAGMOM[a] = IF r % 2 = 0 THEN M ELSE -M
                     /\ L >= Len(ordered) => MAGMOM[a] = M
            ELSE MAGMOM[a] = 0

C2_Witness ==
    /\ pc = "done"
    /\ L = 2
    /\ Len(ordered) = 3
    /\ MAGMOM[ordered[3].members[1]] = -M

\* C3: a block size L < 1 is rejected for every input, also when no plane is
\* found: the run does not complete and assigns no sign or moment.
C3_NonPositiveLayersRejected ==
    (Parsed /\ L < 1) => (pc # "done" /\ table_lines = <<>>)

\* C4: a tolerance <= 0 is rejected before clustering: no such run reaches
\* the clustering pass.
C4_NonPositiveToleranceRejected ==
    (Parsed /\ tol <= 0) => ~Clustering

\* C5: with a selection by 1-based indices, an index < 1 or > N ends the run
\* with an error, and a successful selection sets the mask exactly at the
\* positions index-1 of the listed indices.
C5_IndicesValidated ==
    (Parsed /\ pc \notin {"read", "select"} /\ atoms.kind = "digits") =>
        LET natoms == Cardinality(DOMAIN elems)
            listed == {atoms.idx[k] : k \in DOMAIN atoms.idx}
        IN  /\ (\E x \in listed : x < 1 \/ x > natoms) => pc = "exit"
            /\ pc # "exit" => \A a \in DOMAIN elems : mask[a] <=> (a + 1) \in listed

\* C6 as stated: any two selected atoms whose projections differ by exactly
\* tol are in different planes.
C6_ExactTolAlwaysSplits ==
    Clustering =>
        \A a, b \in DOMAIN mask :
            (/\ a # b /\ Placed(a) /\ Placed(b)
             /\ Finite(proj[a]) /\ Finite(proj[b])
             /\ Dist(proj[a], proj[b]) = tol)
            => PlaneOf(a) # PlaneOf(b)

\* C6 as amended: two selected atoms whose projections differ by exactly tol
\* are in different planes whenever one of them is the first member of its
\* plane, the atom whose projection is the plane's reference.
C6_ExactTolSplitsFromFounder ==
    Clustering =>
        \A a, b \in DOMAIN mask :
            (/\ a # b /\ Placed(a) /\ Placed(b)
             /\ Finite(proj[a]) /\ Finite(proj[b])
             /\ Dist(proj[a], proj[b]) = tol
             /\ Founder(PlaneOf(a)) = a)
            => PlaneOf(a) # PlaneOf(b)

C6_Witness ==
    /\ Clustered
    /\ tol > 0
    /\ \E a, b \in DOMAIN mask :
        /\ a < b /\ mask[a] /\ mask[b]
        /\ Finite(proj[a]) /\ Finite(proj[b])
        /\ Dist(proj[a], proj[b]) = tol
        /\ Founder(PlaneOf(a)) = a
        /\ PlaneOf(a) # PlaneOf(b)

\* C7: a direction whose Cartesian vector has zero norm fails the run; no
\* projections, planes or moments are produced from it.
C7_ZeroNormRejected ==
    Clustering => Norm(NCart(n_vec, lattice)) # 0

\* C8: the pass takes the atoms in increasing index; a selected atom joins
\* the earliest-created plane whose reference is strictly within tol of its
\* projection, other planes untouched; with no such plane a new plane is
\* created with the atom's projection as reference and the atom as only
\* member; every reference stays the projection of the plane's first member.
C8_FirstFitInAtomOrder ==
    [][(pc = "cluster" /\ pc' = "cluster" /\ i' # i) =>
        LET p == proj[i]
            hits == {k \in DOMAIN planes :
                        /\ Finite(p) /\ Finite(planes[k].ref)
                        /\ Dist(p, planes[k].ref) < tol}
            new == Cardinality(DOMAIN planes)
        IN  /\ i' = i + 1
            /\ ~mask[i] => planes' = planes
            /\ (mask[i] /\ hits # {}) =>
                 LET first == CHOOSE k \in hits : \A j \in hits : k <= j
                 IN  /\ DOMAIN planes' = DOMAIN planes
                     /\ planes'[first].members = Append(planes[first].members, i)
                     /\ \A j \in DOMAIN planes \ {first} : planes'[j] = planes[j]
            /\ (mask[i] /\ hits = {}) =>
                 /\ DOMAIN planes' = DOMAIN planes \cup {new}
                 /\ planes'[new] = [ref |-> p, members |-> <<i>>]
                 /\ \A j \in DOMAIN planes : planes'[j] = planes[j]
            /\ \A k \in DOMAIN planes' : planes'[k].ref = proj[planes'[k].members[1]]
      ]_vars

\* An atom sits in an earlier plane although a later plane, created before
\* the atom was visited, has the nearer reference.
C8_Witness ==
    /\ Clustered
    /\ \E k, j \in DOMAIN planes : \E a \in DOMAIN mask :
        /\ k < j
        /\ Member(a, k)
        /\ Founder(j) < a
        /\ Finite(proj[a])
        /\ Dist(proj[a], planes[j].ref) < Dist(proj[a], planes[k].ref)

\* C9: the ordered planes are the P planes, one rank 0..P-1 each; no plane's
\* reference is below that of a lower rank; planes of equal reference keep
\* their creation order; the table gives every atom the rank of its plane,
\* and the sign of that rank.
C9_RanksOrderPlanes ==
    Sorted =>
        /\ Len(ordered) = Cardinality(DOMAIN planes)
        /\ {ordered[r].pid : r \in DOMAIN ordered} = DOMAIN planes
        /\ \A r \in DOMAIN ordered :
            /\ ordered[r].ref = planes[ordered[r].pid].ref
            /\ ordered[r].members = planes[ordered[r].pid].members
        /\ \A r, s \in DOMAIN ordered :
            r < s =>
                /\ ~FLess(ordered[s].ref, ordered[r].ref)
                /\ (Finite(ordered[r].ref) /\ Finite(ordered[s].ref))
                     => ordered[r].ref.v <= ordered[s].ref.v
                /\ ordered[r].ref = ordered[s].ref => ordered[r].pid < ordered[s].pid
        /\ \A n \in DOMAIN table_lines :
            LET row == table_lines[n]
            IN  /\ row.plane_ID = RankOf(row.atom_index - 1)
                /\ L >= 1 => row.sign = IF (row.plane_ID \div L) % 2 = 0 THEN 1 ELSE -1

\* Two planes of equal reference, and a plane ranked below one created
\* before it.
C9_Witness ==
    /\ pc = "done"
    /\ \E r, s \in DOMAIN ordered : r < s /\ ordered[r].ref = ordered[s].ref
    /\ \E r, s \in DOMAIN ordered : r < s /\ ordered[r].pid > ordered[s].pid
    /\ table_lines # <<>>

\* C10: at every step of the pass any two distinct planes have references
\* at least tol apart and every member of a plane has its projection
\* strictly within tol of the plane's reference; for tol > 0 no two planes
\* share a reference and the references increase strictly with the rank.
C10_PlanesSeparated ==
    Clustering =>
        /\ \A k, j \in DOMAIN planes :
            k # j => /\ Finite(planes[k].ref) /\ Finite(planes[j].ref)
                     /\ Dist(planes[k].ref, planes[j].ref) >= tol
        /\ \A k \in DOMAIN planes : \A n \in DOMAIN planes[k].members :
            LET p == proj[planes[k].members[n]]
            IN  Finite(p) /\ Finite(planes[k].ref) /\ Dist(p, planes[k].ref) < tol
        /\ tol > 0 =>
            /\ \A k, j \in DOMAIN planes : k # j => planes[k].ref # planes[j].ref
            /\ Sorted => \A r, s \in DOMAIN ordered :
                            r < s => FLess(ordered[r].ref, ordered[s].ref)

\* The statement of C10 for the runs it was written for: a positive
\* tolerance and a direction of non-zero norm.
C10_SeparatedForValidInputs ==
    (Clustering /\ tol > 0 /\ Norm(NCart(n_vec, lattice)) # 0) =>
        /\ \A k, j \in DOMAIN planes :
            k # j => Dist(planes[k].ref, planes[j].ref) >= tol
        /\ \A k \in DOMAIN planes : \A n \in DOMAIN planes[k].members :
            Dist(proj[planes[k].members[n]], planes[k].ref) < tol
        /\ Sorted => \A r, s \in DOMAIN ordered :
                        r < s => ordered[r].ref.v < ordered[s].ref.v

====
